---- MODULE Spec2Model ----
(***************************************************************************)
(* Model of the multiplayer snake server (src/server.py).                  *)
(*                                                                         *)
(* The server is one asyncio event loop.  Its tasks are the tick loop      *)
(* (Server.tick_loop) and one handler per connection                       *)
(* (Server.handle_client).  A task runs without interruption between two   *)
(* await points, so every action below is the code between two awaits.    *)
(* The world (snakes, writers, food) is guarded by one asyncio.Lock, which *)
(* serves its waiters first come, first served.                            *)
(*                                                                         *)
(* The grid and the number of food items are scaled down: WIDTH and HEIGHT, *)
(* which server.py sets once (30 and 15), are variables that a             *)
(* specification fixes in its initial state and no action changes.  The    *)
(* number of connections, ticks and lines read in a run is bounded.        *)
(***************************************************************************)
EXTENDS Integers, Sequences, FiniteSets, TLC

\* ------------------------------------------------------------------ bounds
\* server.py spawns 10 food items at start; the model spawns NumFood.
NumFood == 1
\* Spec: the grid (server.py: 30 x 15), the connections accepted in a run, the
\* ticks executed, and the lines (or ends of stream) all handlers read.
GridW == 2
GridH == 2
MaxPlayers == 2
MaxTicks == 2
MaxLines == 1
\* SpecSolo: a larger grid and more ticks, with fewer connections.
SoloW == 3
SoloH == 2
SoloPlayers == 1
SoloTicks == 4
SoloLines == 3

\* --------------------------------------------------------------- constants
DirKeys == {"U", "D", "L", "R"}

DIRS(d) ==
  CASE d = "U" -> <<0, -1>>
    [] d = "D" -> <<0, 1>>
    [] d = "L" -> <<-1, 0>>
    [] d = "R" -> <<1, 0>>

\* Snake.__init__: a one-cell body, no pending growth, alive.
Snake(x, y, dir_key) ==
  [body |-> << <<x, y>> >>, dir |-> dir_key, grow |-> 0, alive |-> TRUE]

\* `cell in s.body` for a Python list of tuples.
InBody(cell, body) == \E i \in 1 .. Len(body) : body[i] = cell

\* The pids of a dict in iteration order.  A dict iterates in insertion order;
\* pids are handed out in increasing order and the lock is first come, first
\* served, so snakes and writers are inserted in increasing pid order.
RECURSIVE Ordered(_)
Ordered(S) ==
  IF S = {} THEN << >>
  ELSE LET m == CHOOSE x \in S : \A y \in S : x <= y
       IN << m >> \o Ordered(S \ {m})

VARIABLES
  WIDTH,      \* server.py line 8, scaled
  HEIGHT,     \* server.py line 9, scaled
  started,    \* Server.start has spawned the food and created the tick task
  next_pid,   \* Server.next_pid
  snakes,     \* Server.snakes: pid -> Snake
  writers,    \* Server.writers: pid -> transport (a connection's transport
              \* is named by the pid of its handler)
  food,       \* Server.food
  sess,       \* one handle_client task per accepted connection: its position
  waiters,    \* the lock's queue of waiting handlers
  lock,       \* "free", or "tick" while tick_loop holds it over an await
  tickPc,     \* tick_loop: "sleep", "bcast" (in broadcast_frame), "spin"
  todo,       \* broadcast_frame: the writers still to be written in this pass
  deadw,      \* broadcast_frame: dead, the pids whose write failed
  frame,      \* broadcast_frame: rows_s of the frame built in the last tick
  recv,       \* transport -> the frame written to it in the current pass
  ticks,      \* number of game_tick calls so far
  deadLog,    \* every death message written: [to, pid, tick]
  nlines,     \* number of readline calls that have returned so far
  hist        \* what the last game_tick (or start) did: the pids that moved,
              \* ate and dropped their tail, the spawns, the meals per pid

vars == << WIDTH, HEIGHT, started, next_pid, snakes, writers, food, sess, waiters, lock,
           tickPc, todo, deadw, frame, recv, ticks, deadLog, nlines, hist >>

\* The cells of the grid: (x, y) with x in range(WIDTH), y in range(HEIGHT).
Cells == (0 .. WIDTH - 1) \X (0 .. HEIGHT - 1)

\* ------------------------------------------------------------- spawn_food
\* Line 75: the spot is in the body of some snake of the map, alive or not.
SnakeAt(sn, cell) == \E p \in DOMAIN sn : InBody(cell, sn[p].body)

\* The cells an alive snake occupies.
LiveCells(sn) ==
  {c \in Cells : \E p \in DOMAIN sn : sn[p].alive /\ InBody(c, sn[p].body)}

\* Mutant of SpawnFood: the check of line 75 against the snakes is left out.
SpawnFoodOnSnake(sn, fd) == {c \in Cells : c \notin fd}

\* spawn_food draws a random cell until one is neither in a snake's body nor
\* food: the cells the loop can end with.  With none, the loop never ends.
SpawnFood(sn, fd) == {c \in Cells : ~SnakeAt(sn, c) /\ c \notin fd}

SpawnEntry(sn, fd, c) == [cell |-> c, food |-> fd, live |-> LiveCells(sn)]

\* Server.start, lines 56-58: n more calls of spawn_food.  The outcomes are
\* records [food, spawns, spin]; spin says a call never returned.
RECURSIVE StartFood(_, _)
StartFood(n, S) ==
  IF n = 0 THEN S
  ELSE StartFood(n - 1,
         UNION { IF st.spin THEN {st}
                 ELSE IF SpawnFood(<< >>, st.food) = {}
                      THEN {[st EXCEPT !.spin = TRUE]}
                      ELSE {[st EXCEPT !.food = @ \cup {c},
                                       !.spawns = Append(@, SpawnEntry(<< >>, st.food, c))]
                            : c \in SpawnFood(<< >>, st.food)}
                 : st \in S })

\* --------------------------------------------------------------- game_tick
\* Mutant of NewHead: lines 181-182, the wrap, are left out.
NewHeadNoWrap(s) ==
  << s.body[1][1] + DIRS(s.dir)[1], s.body[1][2] + DIRS(s.dir)[2] >>

\* Lines 175-183: the candidate head, wrapped (Python's % is never negative
\* for a positive modulus, as TLA+'s).
NewHead(s) ==
  LET d == DIRS(s.dir)
      h == s.body[1]
  IN << (h[1] + d[1]) % WIDTH, (h[2] + d[2]) % HEIGHT >>

\* Mutant of Collision: line 188, which skips the dead snakes, is left out.
CollisionWithDead(sn, head) == \E p \in DOMAIN sn : InBody(head, sn[p].body)

\* Mutant of Collision: lines 186-198 are left out, nothing is a crash.
CollisionNever(sn, head) == FALSE

\* Mutant of Collision: the comment of lines 190-191 made true: the last cell
\* of a snake with no pending growth, which this tick vacates, is safe.
CollisionTailSafe(sn, head) ==
  \E p \in DOMAIN sn :
    /\ sn[p].alive
    /\ \E i \in 1 .. Len(sn[p].body) :
         /\ sn[p].body[i] = head
         /\ ~(i = Len(sn[p].body) /\ sn[p].grow = 0)

\* Lines 186-193: the head is in the body of a snake that is alive now.
Collision(sn, head) ==
  \E p \in DOMAIN sn : sn[p].alive /\ InBody(head, sn[p].body)

\* Mutant of Grow: two segments per food item.
GrowTwo(s) == [s EXCEPT !.grow = @ + 2]

\* Line 206.
Grow(s) == [s EXCEPT !.grow = @ + 3]

\* Lines 210-213: keep the tail while growth is pending, else drop it.
TailRule(s) ==
  IF s.grow > 0 THEN [s EXCEPT !.grow = @ - 1]
  ELSE [s EXCEPT !.body = SubSeq(@, 1, Len(@) - 1)]

\* The food items pid has eaten so far (a history of line 204's branch).
Meals(meals, pid) == IF pid \in DOMAIN meals THEN meals[pid] ELSE 0

\* Lines 172-213 for one snake, in the state st the loop has reached:
\* the set of states the loop body can leave (one per cell spawn_food may
\* choose).  st.spin: a spawn_food call that never returns; nothing runs
\* after it.
ProcessSnake(st, pid) ==
  LET s == st.snakes[pid]
      head == NewHead(s)
      moved == [s EXCEPT !.body = << head >> \o @]
      done(s2, st2) ==
        [st2 EXCEPT !.snakes[pid] = TailRule(s2),
                    !.moved = @ \cup {pid},
                    !.popped = IF Len(TailRule(s2).body) < Len(s2.body)
                               THEN @ \cup {pid} ELSE @]
  IN IF st.spin \/ ~s.alive THEN {st}
     ELSE IF Collision(st.snakes, head)
     THEN {[st EXCEPT !.snakes[pid].alive = FALSE,
                      !.to_kill = Append(@, pid)]}
     ELSE IF head \in st.food
     THEN LET fd == st.food \ {head}
              grown == Grow(moved)
              sn == [st.snakes EXCEPT ![pid] = grown]
              st1 == [st EXCEPT !.snakes = sn, !.food = fd,
                                !.ate = @ \cup {pid},
                                !.meals = (pid :> Meals(@, pid) + 1) @@ @]
          IN IF SpawnFood(sn, fd) = {}
             THEN {[st1 EXCEPT !.spin = TRUE]}
             ELSE {done(grown, [st1 EXCEPT !.food = fd \cup {c},
                                           !.spawns = Append(@, SpawnEntry(sn, fd, c))])
                   : c \in SpawnFood(sn, fd)}
     ELSE {done(moved, st)}

\* Line 171: the loop over list(self.snakes.items()).
RECURSIVE TickLoop(_, _)
TickLoop(pids, S) ==
  IF pids = << >> THEN S
  ELSE TickLoop(Tail(pids), UNION {ProcessSnake(st, Head(pids)) : st \in S})

\* Mutant of Notify: the death message goes to every writer.
RECURSIVE NotifyAll(_, _, _, _)
NotifyAll(to_kill, wr, log, tick) ==
  IF to_kill = << >> THEN log
  ELSE LET ws == Ordered(DOMAIN wr)
       IN NotifyAll(Tail(to_kill), wr,
                    log \o [i \in 1 .. Len(ws) |->
                              [to |-> wr[ws[i]], pid |-> Head(to_kill), tick |-> tick]],
                    tick)

\* Lines 216-222: one death message per pid of to_kill that still has a
\* writer, written to that writer.
RECURSIVE Notify(_, _, _, _)
Notify(to_kill, wr, log, tick) ==
  IF to_kill = << >> THEN log
  ELSE LET pid == Head(to_kill)
       IN Notify(Tail(to_kill), wr,
                 IF pid \in DOMAIN wr
                 THEN Append(log, [to |-> wr[pid], pid |-> pid, tick |-> tick])
                 ELSE log,
                 tick)

\* game_tick: the states it can end in, from the world (sn, fd).
GameTick(sn, fd, meals) ==
  TickLoop(Ordered(DOMAIN sn),
           {[snakes |-> sn, food |-> fd, to_kill |-> << >>, moved |-> {},
             ate |-> {}, popped |-> {}, spawns |-> << >>, meals |-> meals,
             spin |-> FALSE]})

\* --------------------------------------------------------- broadcast_frame
\* str(pid % 10): the decimal digit.
DigitStr(n) == << "0", "1", "2", "3", "4", "5", "6", "7", "8", "9" >>[n + 1]

\* str.upper: a digit has no upper case and stays as it is.
Upper(ch) == ch

\* Mutant of DrawSnakes: line 237, which skips the dead snakes, is left out.
RECURSIVE DrawDeadToo(_, _, _, _)
DrawDeadToo(pids, sn, cell, ch) ==
  IF pids = << >> THEN ch
  ELSE DrawDeadToo(Tail(pids), sn, cell,
         IF InBody(cell, sn[Head(pids)].body)
         THEN DigitStr(Head(pids) % 10)
         ELSE ch)

\* Lines 236-242, back to front: the character the snakes leave on a cell is
\* that of the last alive snake (in map order) with the cell in its body;
\* its head is drawn with ch.upper().
RECURSIVE DrawSnakes(_, _, _, _)
DrawSnakes(pids, sn, cell, ch) ==
  IF pids = << >> THEN ch
  ELSE LET pid == Head(pids)
           s == sn[pid]
           c == DigitStr(pid % 10)
       IN DrawSnakes(Tail(pids), sn, cell,
            IF s.alive /\ InBody(cell, s.body)
            THEN (IF \E i \in 2 .. Len(s.body) : s.body[i] = cell
                  THEN c
                  ELSE Upper(c))
            ELSE ch)

\* Lines 229-245: rows_s, HEIGHT strings of WIDTH characters (a string is a
\* sequence of one-character strings).
Render(sn, fd) ==
  [y \in 1 .. HEIGHT |->
    [x \in 1 .. WIDTH |->
      DrawSnakes(Ordered(DOMAIN sn), sn, << x - 1, y - 1 >>,
                 IF << x - 1, y - 1 >> \in fd THEN "*" ELSE ".")]]

\* ----------------------------------------------------------- handle_client
\* A line a connection delivers, by what lines 115-121 make of it: whether
\* the bytes decode as UTF-8, whether the text is JSON, and the JSON value:
\* its Python type t and, for an object, its "type" and "dir" members
\* ("absent": no such key; "list": a value that is not hashable; "X", "other":
\* some other string).
Value(t, type, dir) == [t |-> t, type |-> type, dir |-> dir]
Line(utf8, json, val) == [utf8 |-> utf8, json |-> json, val |-> val]
NoValue == Value("none", "absent", "absent")

BadUtf8 == Line(FALSE, FALSE, NoValue)
NotJson == Line(TRUE, FALSE, NoValue)
JsonNumber == Line(TRUE, TRUE, Value("number", "absent", "absent"))
JsonString == Line(TRUE, TRUE, Value("string", "absent", "absent"))
JsonList == Line(TRUE, TRUE, Value("list", "absent", "absent"))
JsonNull == Line(TRUE, TRUE, Value("null", "absent", "absent"))
Obj(type, dir) == Line(TRUE, TRUE, Value("object", type, dir))
Cmd(d) == Obj("cmd", d)

\* The lines a client sends that are no direction command.
Malformed ==
  { BadUtf8, NotJson, JsonNumber, JsonString, JsonList, JsonNull,
    Obj("absent", "absent"), Obj("other", "U"), Obj("absent", "U"),
    Cmd("absent"), Cmd("X"), Cmd("list") }

Lines == Malformed \cup {Cmd(d) : d \in DirKeys}

\* Lines 114-121 on one line: "continue" (the line is dropped and the loop
\* reads on), "apply" (a direction to apply under the lock) or "raise" (an
\* exception that `except asyncio.CancelledError` lets through, so that the
\* handler leaves the loop through its finally block).
\*   line.decode / json.loads fail: caught by `except Exception`;
\*   msg.get on a value that is no dict: AttributeError;
\*   `d in DIRS` on a list: TypeError (unhashable).
Outcome(line) ==
  IF ~line.utf8 \/ ~line.json THEN "continue"
  ELSE IF line.val.t # "object" THEN "raise"
  ELSE IF line.val.type # "cmd" THEN "continue"
  ELSE IF line.val.dir = "list" THEN "raise"
  ELSE IF line.val.dir \in DirKeys THEN "apply"
  ELSE "continue"

\* Mutant of ApplyCmd: the direction goes to every snake of the map.
ApplyCmdAll(sn, pid, d) == [p \in DOMAIN sn |-> [sn[p] EXCEPT !.dir = d]]

\* Mutant of ApplyCmd: lines 127-133, the test against the neck, are left out.
ApplyCmdNoGuard(sn, pid, d) ==
  IF pid \in DOMAIN sn /\ sn[pid].alive THEN [sn EXCEPT ![pid].dir = d] ELSE sn

\* Lines 123-134: the direction command d for pid, under the lock.
ApplyCmd(sn, pid, d) ==
  IF pid \in DOMAIN sn /\ sn[pid].alive
  THEN LET s == sn[pid]
       IN IF Len(s.body) < 2 THEN [sn EXCEPT ![pid].dir = d]
          ELSE LET h == s.body[1]
                   n == s.body[2]
               IN IF << h[1] - n[1], h[2] - n[2] >> # DIRS(d)
                  THEN [sn EXCEPT ![pid].dir = d]
                  ELSE sn
  ELSE sn

\* Mutant of KillSnake: lines 143-144 are left out.
KeepSnake(sn, pid) == sn

\* Lines 143-144.
KillSnake(sn, pid) ==
  IF pid \in DOMAIN sn THEN [sn EXCEPT ![pid].alive = FALSE] ELSE sn

\* Mutant of Without: no entry is deleted.
WithoutNone(wr, gone) == wr

\* Mutant of Without: every entry is deleted with the ones that are gone.
WithoutAll(wr, gone) == IF DOMAIN wr \cap gone = {} THEN wr ELSE << >>

\* del self.writers[pid], for the pids of gone that have an entry.
Without(wr, gone) == [p \in DOMAIN wr \ gone |-> wr[p]]

\* Mutant of LockFree: the handlers and the tick loop do not wait for the lock.
LockIgnored == TRUE

\* asyncio.Lock.acquire returns at once only when the lock is not held and no
\* handler waits for it.
LockFree == lock = "free" /\ waiters = << >>

Running == started /\ tickPc # "spin"

Sess(pc, d, pend) == [pc |-> pc, d |-> d, pend |-> pend]

\* Lines 88-103: a connection is accepted.  The pid and the snake are made
\* before the lock is asked for; with the lock free the registration follows
\* without an await.
Accept(maxP, x, y, dir_key) ==
  /\ Running
  /\ next_pid <= maxP
  /\ next_pid' = next_pid + 1
  /\ IF LockFree
     THEN /\ snakes' = (next_pid :> Snake(x, y, dir_key)) @@ snakes
          /\ writers' = (next_pid :> next_pid) @@ writers
          /\ sess' = (next_pid :> Sess("reading", "-", << >>)) @@ sess
          /\ UNCHANGED waiters
     ELSE /\ sess' = (next_pid :> Sess("wait_register", "-",
                                       << Snake(x, y, dir_key) >>)) @@ sess
          /\ waiters' = Append(waiters, next_pid)
          /\ UNCHANGED << snakes, writers >>
  /\ UNCHANGED << WIDTH, HEIGHT, started, food, lock, tickPc, todo, deadw, frame, recv,
                  ticks, deadLog, nlines, hist >>

\* Lines 138-146, the finally block, once the handler has the lock.
Cleanup(pid) ==
  /\ snakes' = KillSnake(snakes, pid)
  /\ writers' = Without(writers, {pid})

\* Leaving the read loop: the cleanup at once, or a wait for the lock.
Leave(pid) ==
  IF LockFree
  THEN /\ Cleanup(pid)
       /\ sess' = [sess EXCEPT ![pid] = Sess("done", "-", << >>)]
       /\ UNCHANGED waiters
  ELSE /\ sess' = [sess EXCEPT ![pid] = Sess("wait_cleanup", "-", << >>)]
       /\ waiters' = Append(waiters, pid)
       /\ UNCHANGED << snakes, writers >>

\* Lines 109-134: readline returns a line and the handler deals with it.
ReadLine(maxL, pid, line) ==
  /\ Running
  /\ pid \in DOMAIN sess
  /\ sess[pid].pc = "reading"
  /\ nlines < maxL
  /\ nlines' = nlines + 1
  /\ CASE Outcome(line) = "continue" ->
            UNCHANGED << snakes, writers, sess, waiters >>
       [] Outcome(line) = "raise" -> Leave(pid)
       [] Outcome(line) = "apply" ->
            IF LockFree
            THEN /\ snakes' = ApplyCmd(snakes, pid, line.val.dir)
                 /\ UNCHANGED << writers, sess, waiters >>
            ELSE /\ sess' = [sess EXCEPT ![pid] =
                               Sess("wait_cmd", line.val.dir, << >>)]
                 /\ waiters' = Append(waiters, pid)
                 /\ UNCHANGED << snakes, writers >>
  /\ UNCHANGED << WIDTH, HEIGHT, started, next_pid, food, lock, tickPc, todo, deadw, frame,
                  recv, ticks, deadLog, hist >>

\* Lines 109-111 and 138: readline returns b"" (the peer closed) or raises
\* (the connection broke).
ReadEnd(maxL, pid) ==
  /\ Running
  /\ pid \in DOMAIN sess
  /\ sess[pid].pc = "reading"
  /\ nlines < maxL
  /\ nlines' = nlines + 1
  /\ Leave(pid)
  /\ UNCHANGED << WIDTH, HEIGHT, started, next_pid, food, lock, tickPc, todo, deadw, frame,
                  recv, ticks, deadLog, hist >>

\* The lock is handed to the handler that has waited longest, which runs its
\* locked block: lines 100-103, 122-134 or 142-146.
Grant ==
  /\ Running
  /\ lock = "free"
  /\ waiters # << >>
  /\ LET pid == Head(waiters)
         me == sess[pid]
     IN /\ waiters' = Tail(waiters)
        /\ CASE me.pc = "wait_register" ->
                  /\ snakes' = (pid :> me.pend[1]) @@ snakes
                  /\ writers' = (pid :> pid) @@ writers
                  /\ sess' = [sess EXCEPT ![pid] = Sess("reading", "-", << >>)]
             [] me.pc = "wait_cmd" ->
                  /\ snakes' = ApplyCmd(snakes, pid, me.d)
                  /\ sess' = [sess EXCEPT ![pid] = Sess("reading", "-", << >>)]
                  /\ UNCHANGED writers
             [] me.pc = "wait_cleanup" ->
                  /\ Cleanup(pid)
                  /\ sess' = [sess EXCEPT ![pid] = Sess("done", "-", << >>)]
  /\ UNCHANGED << WIDTH, HEIGHT, started, next_pid, food, lock, tickPc, todo, deadw, frame,
                  recv, ticks, deadLog, nlines, hist >>

\* ------------------------------------------------------ start and tick_loop
Hist(moved, ate, popped, spawns, meals) ==
  [moved |-> moved, ate |-> ate, popped |-> popped, spawns |-> spawns,
   meals |-> meals]

\* Server.start, lines 56-61.
Start ==
  /\ ~started
  /\ started' = TRUE
  /\ \E st \in StartFood(NumFood, {[food |-> {}, spawns |-> << >>, spin |-> FALSE]}) :
       /\ food' = st.food
       /\ hist' = [hist EXCEPT !.spawns = st.spawns]
       /\ tickPc' = IF st.spin THEN "spin" ELSE "sleep"
  /\ UNCHANGED << WIDTH, HEIGHT, next_pid, snakes, writers, sess, waiters,
                  lock, todo, deadw, frame, recv, ticks, deadLog, nlines >>

\* Lines 156-158 up to the first await of broadcast_frame: the lock, which
\* tick_loop gets after the handlers that wait for it, game_tick, and lines
\* 229-253 of broadcast_frame.  With no writer the pass is over at once.
Tick(maxT) ==
  /\ Running
  /\ tickPc = "sleep"
  /\ LockFree
  /\ ticks < maxT
  /\ \E st \in GameTick(snakes, food, hist.meals) :
       /\ snakes' = st.snakes
       /\ food' = st.food
       /\ hist' = Hist(st.moved, st.ate, st.popped, st.spawns, st.meals)
       /\ IF st.spin
          THEN /\ tickPc' = "spin"
               /\ lock' = "tick"
               /\ UNCHANGED << todo, deadw, frame, recv, ticks, deadLog >>
          ELSE /\ ticks' = ticks + 1
               /\ deadLog' = Notify(st.to_kill, writers, deadLog, ticks + 1)
               /\ frame' = Render(st.snakes, st.food)
               /\ recv' = << >>
               /\ deadw' = {}
               /\ todo' = Ordered(DOMAIN writers)
               /\ IF DOMAIN writers = {}
                  THEN lock' = "free" /\ tickPc' = "sleep"
                  ELSE lock' = "tick" /\ tickPc' = "bcast"
  /\ UNCHANGED << WIDTH, HEIGHT, started, next_pid, writers, sess, waiters, nlines >>

\* Lines 253-262: one more writer of the pass: w.write(data) and the await of
\* w.drain(), which returns (ok) or raises.  After the last one the failed
\* writers are deleted and tick_loop releases the lock.
BcastWrite(ok) ==
  /\ Running
  /\ tickPc = "bcast"
  /\ LET pid == Head(todo)
         failed == IF ok THEN deadw ELSE deadw \cup {pid}
     IN /\ recv' = IF ok THEN (writers[pid] :> frame) @@ recv ELSE recv
        /\ todo' = Tail(todo)
        /\ IF Tail(todo) = << >>
           THEN /\ writers' = Without(writers, failed)
                /\ deadw' = {}
                /\ lock' = "free"
                /\ tickPc' = "sleep"
           ELSE /\ deadw' = failed
                /\ UNCHANGED << writers, lock, tickPc >>
  /\ UNCHANGED << WIDTH, HEIGHT, started, next_pid, snakes, food, sess, waiters, frame,
                  ticks, deadLog, nlines, hist >>

\* The state after Server.__init__, on a grid of w x h cells.
Boot(w, h) ==
  /\ WIDTH = w
  /\ HEIGHT = h
  /\ started = FALSE
  /\ next_pid = 1
  /\ snakes = << >>
  /\ writers = << >>
  /\ food = {}
  /\ sess = << >>
  /\ waiters = << >>
  /\ lock = "free"
  /\ tickPc = "sleep"
  /\ todo = << >>
  /\ deadw = {}
  /\ frame = << >>
  /\ recv = << >>
  /\ ticks = 0
  /\ deadLog = << >>
  /\ nlines = 0
  /\ hist = Hist({}, {}, {}, << >>, << >>)

Init == Boot(GridW, GridH)

Next ==
  \/ Start
  \/ \E x \in 0 .. WIDTH - 1, y \in 0 .. HEIGHT - 1, d \in DirKeys :
       Accept(MaxPlayers, x, y, d)
  \/ \E pid \in 1 .. MaxPlayers, line \in Lines : ReadLine(MaxLines, pid, line)
  \/ \E pid \in 1 .. MaxPlayers : ReadEnd(MaxLines, pid)
  \/ Grant
  \/ Tick(MaxTicks)
  \/ \E ok \in BOOLEAN : BcastWrite(ok)

Spec == Init /\ [][Next]_vars

InitSolo == Boot(SoloW, SoloH)

NextSolo ==
  \/ Start
  \/ \E x \in 0 .. WIDTH - 1, y \in 0 .. HEIGHT - 1, d \in DirKeys :
       Accept(SoloPlayers, x, y, d)
  \/ \E pid \in 1 .. SoloPlayers, line \in Lines : ReadLine(SoloLines, pid, line)
  \/ \E pid \in 1 .. SoloPlayers : ReadEnd(SoloLines, pid)
  \/ Grant
  \/ Tick(SoloTicks)
  \/ \E ok \in BOOLEAN : BcastWrite(ok)

SpecSolo == InitSolo /\ [][NextSolo]_vars

\* ---------------------------------------------------------------- scheduling
\* The connections whose peer stays connected and never reads what the server
\* writes to it: once the buffers between them are full, `await w.drain()`
\* (line 256) does not return for such a transport.
Deaf == {1}

\* The drain of the write to pid returns or raises (line 256).
DrainReturns(pid) ==
  /\ tickPc = "bcast"
  /\ Head(todo) = pid
  /\ \E ok \in BOOLEAN : BcastWrite(ok)

\* What the event loop guarantees: the timer of line 163 fires and the tick
\* loop takes the free lock; a released lock is handed to the handler that
\* waits for it; the drain of a write to a peer that reads returns.  Nothing
\* makes a client connect, send a line or close.
Fairness ==
  /\ WF_vars(Tick(MaxTicks))
  /\ WF_vars(Grant)
  /\ \A pid \in (1 .. MaxPlayers) \ Deaf : WF_vars(DrainReturns(pid))

SpecLive == Init /\ [][Next]_vars /\ Fairness

\* ------------------------------------------------------------------ claims
\* A step that is a completed call of game_tick.
TickStep == ticks' = ticks + 1

\* C1: in a tick, every snake alive at the start whose candidate head is a
\* cell of the pre-tick body of a snake alive at the start (its own, or
\* another's, a tail cell vacated in this tick included) is dead at the end.
C1_PreTickBodyKills ==
  [][TickStep =>
       \A p \in DOMAIN snakes :
         (/\ snakes[p].alive
          /\ \E q \in DOMAIN snakes :
               snakes[q].alive /\ InBody(NewHead(snakes[p]), snakes[q].body))
         => ~snakes'[p].alive]_vars

\* C2: in a tick, a snake alive at the start whose candidate head is in no
\* pre-tick body of a snake alive at the start survives and ends the tick with
\* that cell as its head (also when another snake moves to the same cell).
C2_FreeCellSurvives ==
  [][TickStep =>
       \A p \in DOMAIN snakes :
         (/\ snakes[p].alive
          /\ ~\E q \in DOMAIN snakes :
                snakes[q].alive /\ InBody(NewHead(snakes[p]), snakes[q].body))
         => (snakes'[p].alive /\ snakes'[p].body[1] = NewHead(snakes[p]))]_vars

\* The inverse of the neck -> head vector of a body of two or more cells.
HeadToNeck(body) == << body[2][1] - body[1][1], body[2][2] - body[1][2] >>

\* C3: no step changes the facing of an alive snake of length >= 2 to the
\* direction that is the exact inverse of its neck -> head vector (only a
\* command changes a facing).
C3_NoReversal ==
  [][\A p \in DOMAIN snakes :
       (/\ snakes[p].alive
        /\ Len(snakes[p].body) >= 2
        /\ snakes'[p].dir # snakes[p].dir)
       => DIRS(snakes'[p].dir) # HeadToNeck(snakes[p].body)]_vars

\* C4: a handler that reads a line that is no valid direction command drops
\* it: the snakes and the writers are unchanged and the handler goes on
\* reading.
C4_MalformedDiscarded ==
  [][\A p \in DOMAIN sess : \A l \in Malformed :
       ReadLine(nlines + 1, p, l)
       => (/\ snakes' = snakes
           /\ writers' = writers
           /\ sess'[p].pc = "reading")]_vars

\* The death messages written for pid.
DeathsOf(log, pid) == {i \in 1 .. Len(log) : log[i].pid = pid}

\* C5: a snake that dies by collision in a tick while its transport is
\* registered gets exactly one death message in that tick; every death
\* message goes to the transport of the pid it carries, and no pid ever has
\* two death messages.
C5_OneDeathMessage ==
  [][/\ \A i \in 1 .. Len(deadLog') :
          /\ deadLog'[i].to = deadLog'[i].pid
          /\ Cardinality(DeathsOf(deadLog', deadLog'[i].pid)) = 1
     /\ TickStep =>
          \A p \in DOMAIN snakes :
            (snakes[p].alive /\ ~snakes'[p].alive /\ p \in DOMAIN writers)
            => \E i \in DeathsOf(deadLog', p) : deadLog'[i].tick = ticks']_vars

\* C5's case: a snake died in the first tick with another transport
\* registered, and a later tick has run.
C5_Witness ==
  /\ ticks = 2
  /\ \E i \in 1 .. Len(deadLog) :
       /\ deadLog[i].tick = 1
       /\ \E q \in DOMAIN writers : q # deadLog[i].pid

\* C6: in every completed tick a snake survives, len(body) + grow rises by 3
\* if it eats and is unchanged otherwise, and the body grows by one cell
\* exactly when growth is pending after the food check; so between ticks
\* len(body) + grow is 1 + 3 per food item eaten, and one item gives three
\* ticks of growth by one cell.  (A tick that never returns from spawn_food
\* has not applied the tail rule and is not a completed tick.)
C6_Growth ==
  [][/\ tickPc' # "spin" =>
          \A p \in DOMAIN snakes' :
            Len(snakes'[p].body) + snakes'[p].grow = 1 + 3 * Meals(hist'.meals, p)
     /\ TickStep =>
          \A p \in DOMAIN snakes :
            (snakes[p].alive /\ snakes'[p].alive)
            => LET e == IF p \in hist'.ate THEN 1 ELSE 0
                   kept == IF snakes[p].grow + 3 * e > 0 THEN 1 ELSE 0
               IN /\ Len(snakes'[p].body) = Len(snakes[p].body) + kept
                  /\ snakes'[p].grow = snakes[p].grow + 3 * e - kept]_vars

\* C6's case: a snake that ate one item has grown to four cells and has then
\* moved through a tick that dropped its tail.
C6_Witness ==
  \E p \in DOMAIN snakes :
    /\ snakes[p].alive
    /\ Meals(hist.meals, p) = 1
    /\ snakes[p].grow = 0
    /\ Len(snakes[p].body) = 4
    /\ p \in hist.popped

IsDigit(ch) == ch \notin {".", "*"}

\* The alive snakes of sn with cell in their body.
AliveAt(sn, cell) == {p \in DOMAIN sn : sn[p].alive /\ InBody(cell, sn[p].body)}

\* C8: a dead snake stays in the map and never changes again (it is not
\* revived, moved or grown); a snake that dies in a tick has its candidate
\* head in the body of a snake that was alive at the start of the tick; and
\* the frame of the tick shows a digit only where an alive snake is.
C8_DeadIsInert ==
  [][/\ \A p \in DOMAIN snakes :
          ~snakes[p].alive => (p \in DOMAIN snakes' /\ snakes'[p] = snakes[p])
     /\ TickStep =>
          /\ \A q \in DOMAIN snakes :
               (snakes[q].alive /\ ~snakes'[q].alive)
               => \E r \in DOMAIN snakes :
                    /\ snakes[r].alive
                    /\ \/ InBody(NewHead(snakes[q]), snakes[r].body)
                       \/ InBody(NewHead(snakes[q]), snakes'[r].body)
          /\ \A c \in Cells :
               IsDigit(frame'[c[2] + 1][c[1] + 1]) => AliveAt(snakes', c) # {}]_vars

\* C8's case: in the last tick an alive snake moved onto a cell of a dead
\* snake's body.
C8_Witness ==
  /\ ticks >= 1
  /\ \E q \in DOMAIN snakes, r \in DOMAIN snakes :
       /\ snakes[q].alive
       /\ q \in hist.moved
       /\ ~snakes[r].alive
       /\ InBody(snakes[q].body[1], snakes[r].body)

\* C9: every frame a tick builds has HEIGHT rows of WIDTH characters, each
\* '.', '*' or the digit pid mod 10 of an alive snake on that cell.
C9_FrameShape ==
  [][TickStep =>
       /\ Len(frame') = HEIGHT
       /\ \A y \in 1 .. HEIGHT :
            /\ Len(frame'[y]) = WIDTH
            /\ \A x \in 1 .. WIDTH :
                 \/ frame'[y][x] \in {".", "*"}
                 \/ \E p \in AliveAt(snakes', << x - 1, y - 1 >>) :
                      frame'[y][x] = DigitStr(p % 10)]_vars

\* C9's case: a frame built with a dead snake, an alive snake and food on
\* the grid.
C9_Witness ==
  /\ tickPc = "bcast"
  /\ \E p \in DOMAIN snakes, q \in DOMAIN snakes :
       /\ ~snakes[p].alive
       /\ snakes[q].alive
       /\ frame[snakes[p].body[1][2] + 1][snakes[p].body[1][1] + 1] = "."
       /\ frame[snakes[q].body[1][2] + 1][snakes[q].body[1][1] + 1] = DigitStr(q % 10)
  /\ \E c \in food : frame[c[2] + 1][c[1] + 1] = "*"

\* C10: during a broadcast pass the world is the one the tick's physics step
\* left: no step changes the snakes, the food or the writers before the pass
\* ends, the frame is the rendering of that world, and every write of the pass
\* sends that frame.
C10_SettledFrame ==
  [][/\ tickPc = "bcast"
        => /\ snakes' = snakes
           /\ food' = food
           /\ tickPc' = "bcast" => writers' = writers
     /\ tickPc' = "bcast" => frame' = Render(snakes', food')
     /\ recv' # recv
        => \A t \in DOMAIN recv' : recv'[t] = Render(snakes, food)]_vars

\* C10's case: a frame has been written in a pass while a handler waits for
\* the lock, and the pass goes on.
C10_Witness ==
  /\ tickPc = "bcast"
  /\ waiters # << >>
  /\ recv # << >>

\* One step from coordinate v along a side of n cells, leaving by one edge
\* and entering by the other.
Wrapped(v, n) == IF v < 0 THEN n - 1 ELSE IF v > n - 1 THEN 0 ELSE v

\* The cell one step ahead of the head of s on the torus.
Ahead(s) ==
  << Wrapped(s.body[1][1] + DIRS(s.dir)[1], WIDTH),
     Wrapped(s.body[1][2] + DIRS(s.dir)[2], HEIGHT) >>

\* C11: every body cell of every snake is a cell of the grid; in a tick a snake
\* that survives has the wrapped cell ahead as its head, a snake that dies has
\* that cell in the body of an alive snake (it does not die of the edge), and
\* a lone snake of one cell with no food ahead ends the tick as exactly that
\* cell.
C11_Wrap ==
  [][/\ \A p \in DOMAIN snakes' : \A i \in 1 .. Len(snakes'[p].body) :
          snakes'[p].body[i] \in Cells
     /\ TickStep =>
          \A p \in DOMAIN snakes :
            snakes[p].alive =>
              /\ snakes'[p].alive => snakes'[p].body[1] = Ahead(snakes[p])
              /\ ~snakes'[p].alive =>
                   \E r \in DOMAIN snakes :
                     /\ snakes[r].alive
                     /\ \/ InBody(Ahead(snakes[p]), snakes[r].body)
                        \/ InBody(Ahead(snakes[p]), snakes'[r].body)
              /\ (DOMAIN snakes = {p} /\ Len(snakes[p].body) = 1
                  /\ Ahead(snakes[p]) \notin food)
                 => (snakes'[p].alive /\ snakes'[p].body = << Ahead(snakes[p]) >>)]_vars

\* C11's case: a lone snake of one cell heading R has crossed the right edge
\* in the last tick and is in column 0, with no command read since.
C11_Witness ==
  /\ ticks >= 1
  /\ nlines = 0
  /\ \E p \in DOMAIN snakes :
       /\ DOMAIN snakes = {p}
       /\ snakes[p].alive
       /\ p \in hist.moved
       /\ snakes[p].dir = "R"
       /\ snakes[p].body = << << 0, snakes[p].body[1][2] >> >>

\* A step in which the handler of p runs lines 122-134 for the direction d:
\* at once after reading the line, or when it is handed the lock.
CmdApplied(p, d) ==
  \/ LockFree /\ ReadLine(nlines + 1, p, Cmd(d))
  \/ /\ waiters # << >>
     /\ Head(waiters) = p
     /\ sess[p].pc = "wait_cmd"
     /\ sess[p].d = d
     /\ Grant

\* The neck -> head vector of a body of two or more cells (head minus neck).
NeckToHead(body) == << body[1][1] - body[2][1], body[1][2] - body[2][2] >>

PassStep == tickPc = "bcast" /\ todo' = Tail(todo)
PassEnd == PassStep /\ tickPc' # "bcast"

\* C14: a broadcast pass visits the transports registered when it began, one
\* per step; a write that fails removes nothing before the pass has ended;
\* at the end the registered transports are those that were written the frame
\* of the pass, and the ones whose write failed are removed; and no write,
\* failed or not, changes a snake.
C14_WriteFailure ==
  [][/\ TickStep => todo' = Ordered(DOMAIN writers)
     /\ PassStep =>
          LET t == Head(todo)
              failed == IF t \in DOMAIN recv' THEN deadw ELSE deadw \cup {t}
          IN /\ snakes' = snakes
             /\ t \in DOMAIN recv' => recv'[t] = frame
             /\ \A u \in DOMAIN recv : u \in DOMAIN recv' /\ recv'[u] = recv[u]
             /\ IF PassEnd
                THEN /\ DOMAIN writers = DOMAIN recv' \cup failed
                     /\ writers' = [u \in DOMAIN writers \ failed |-> writers[u]]
                ELSE /\ writers' = writers
                     /\ deadw' = failed]_vars

\* C14's case: the write to the first transport failed in a pass that went on
\* to write the second; the first one's snake is alive, unregistered, still
\* served by its handler, and has moved in the tick after.
C14_Witness ==
  /\ ticks = 2
  /\ tickPc = "sleep"
  /\ \E p \in DOMAIN snakes, q \in DOMAIN recv :
       /\ p < q
       /\ snakes[p].alive
       /\ p \in hist.moved
       /\ sess[p].pc = "reading"
       /\ p \notin DOMAIN writers
       /\ q \in DOMAIN writers

\* C15: the cleanup of a handler whose read loop has ended is one step taken
\* with the lock free and no tick or broadcast pass in progress: it clears the
\* alive flag of its snake and removes its registration, and changes no other
\* snake, no other registration, no food; it writes no death message and no
\* frame.  No tick runs between the end of the read loop and the cleanup.
\* After the cleanup the transport is never registered or written again and
\* no death message is written for its snake.
C15_CleanupAtomic ==
  [][\A p \in DOMAIN sess :
       /\ (sess[p].pc # "done" /\ sess'[p].pc = "done") =>
            /\ lock = "free" /\ lock' = "free"
            /\ tickPc = "sleep" /\ tickPc' = "sleep"
            /\ \A q \in DOMAIN snakes :
                 snakes'[q] = IF q = p THEN [snakes[q] EXCEPT !.alive = FALSE]
                              ELSE snakes[q]
            /\ DOMAIN snakes' = DOMAIN snakes
            /\ writers' = [u \in DOMAIN writers \ {p} |-> writers[u]]
            /\ << food, deadLog, recv, frame >>' = << food, deadLog, recv, frame >>
       /\ sess[p].pc = "wait_cleanup" => ~TickStep
       /\ sess[p].pc = "done" =>
            /\ p \notin DOMAIN writers'
            /\ p \in DOMAIN recv' => (p \in DOMAIN recv /\ recv' = recv)
            /\ DeathsOf(deadLog', p) = DeathsOf(deadLog, p)]_vars

\* C15's case: the handler of p has run its cleanup and the snake of p was
\* sent no death message; the tick after moved q and not p, and its pass wrote
\* q and not p.
C15_Witness ==
  \E p \in DOMAIN sess, q \in DOMAIN recv :
    /\ sess[p].pc = "done"
    /\ ~snakes[p].alive
    /\ DeathsOf(deadLog, p) = {}
    /\ p \notin hist.moved
    /\ p \notin DOMAIN recv
    /\ q \in hist.moved
    /\ snakes[q].alive

\* C16: a step removes a registration only as the cleanup of that transport's
\* own handler, or at the end of a broadcast pass in which the write to that
\* transport failed; a tick, whatever snakes die in it, leaves the
\* registrations as they are and queues every registered transport, those of
\* dead snakes too, for the frame.
C16_RegistrationRemoval ==
  [][/\ \A p \in DOMAIN writers :
          p \notin DOMAIN writers' =>
            \/ sess[p].pc # "done" /\ sess'[p].pc = "done"
            \/ PassEnd /\ p \notin DOMAIN recv' /\ p \in deadw \cup {Head(todo)}
     /\ TickStep =>
          /\ writers' = writers
          /\ \A p \in DOMAIN writers : \E i \in 1 .. Len(todo') : todo'[i] = p]_vars

\* C16's case: a snake died by collision in the first tick, and the pass of
\* the second tick has written the frame to its transport, still registered.
C16_Witness ==
  \E i \in 1 .. Len(deadLog) :
    /\ deadLog[i].tick = 1
    /\ ticks = 2
    /\ ~snakes[deadLog[i].pid].alive
    /\ deadLog[i].pid \in DOMAIN recv
    /\ deadLog[i].pid \in DOMAIN writers

\* Where the handler of connection p is; "none" before it is accepted.
PcOf(p) == IF p \in DOMAIN sess THEN sess[p].pc ELSE "none"

\* C17: under fair scheduling every broadcast pass ends, so that the tick
\* loop releases the lock and goes on to its next tick, and every valid
\* command a handler has read is applied, also when a peer that stays
\* connected never reads the frames written to it.
C17_Progress ==
  /\ (tickPc = "bcast") ~> (tickPc = "sleep")
  /\ \A p \in 1 .. MaxPlayers :
       PcOf(p) = "wait_cmd" ~> PcOf(p) = "reading"

\* C18: a call of spawn_food fails to return only when no cell of the grid is
\* free of food and of the body of every alive snake (the body of a dead
\* snake does not count).
C18_SpawnTerminates ==
  tickPc = "spin" => {c \in Cells : c \notin food /\ c \notin LiveCells(snakes)} = {}

\* No cell holds two body segments of alive snakes of sn, of two snakes or of
\* one.
NoOverlap(sn) ==
  \A p \in DOMAIN sn, q \in DOMAIN sn :
    (sn[p].alive /\ sn[q].alive) =>
      \A i \in 1 .. Len(sn[p].body), j \in 1 .. Len(sn[q].body) :
        sn[p].body[i] = sn[q].body[j] => (p = q /\ i = j)

\* The cell one step behind the head of s on the torus.
Behind(s) ==
  << Wrapped(s.body[1][1] - DIRS(s.dir)[1], WIDTH),
     Wrapped(s.body[1][2] - DIRS(s.dir)[2], HEIGHT) >>

\* C19: a step that adds no snake to the map, a tick in particular (also one
\* that does not return from spawn_food), creates no overlap: if no cell holds
\* two body segments of alive snakes before it, none does after it.
C19_NoOverlapByMovement ==
  [][(NoOverlap(snakes) /\ DOMAIN snakes' = DOMAIN snakes) => NoOverlap(snakes')]_vars

\* C19's case: two one-cell snakes on different cells went through the first
\* tick, the second onto the cell the first one left, and do not overlap (no
\* command was read, so each came from the cell behind it).
C19_Witness ==
  /\ ticks = 1
  /\ nlines = 0
  /\ NoOverlap(snakes)
  /\ \E p \in DOMAIN snakes, q \in DOMAIN snakes :
       /\ p < q
       /\ snakes[p].alive /\ snakes[q].alive
       /\ {p, q} \subseteq hist.moved
       /\ Len(snakes[p].body) = 1 /\ Len(snakes[q].body) = 1
       /\ snakes[q].body[1] = Behind(snakes[p])

\* C20: the step that applies a command of the handler of p leaves the map's
\* keys, every snake's body, pending growth and alive flag, the direction of
\* every snake but p's, the food and the registrations as they were.
C20_CmdFrame ==
  [][\A p \in DOMAIN sess : \A d \in DirKeys :
       CmdApplied(p, d) =>
         /\ DOMAIN snakes' = DOMAIN snakes
         /\ \A q \in DOMAIN snakes :
              /\ snakes'[q].body = snakes[q].body
              /\ snakes'[q].grow = snakes[q].grow
              /\ snakes'[q].alive = snakes[q].alive
              /\ q # p => snakes'[q].dir = snakes[q].dir
         /\ food' = food
         /\ writers' = writers]_vars

\* C20's case: with food on the grid and two alive, registered snakes, one of
\* two or more cells whose last step was along its row faces up or down: a
\* command was applied to it after that step.
C20_Witness ==
  /\ food # {}
  /\ \E p \in DOMAIN writers, q \in DOMAIN writers :
       /\ p # q
       /\ snakes[p].alive /\ snakes[q].alive
       /\ Len(snakes[p].body) >= 2
       /\ snakes[p].body[1][2] = snakes[p].body[2][2]
       /\ snakes[p].dir \in {"U", "D"}

====
